---- MODULE Spec2Model ----
(***************************************************************************)
(* Verification model of the Venn-diagram spatial layout calculator,       *)
(* src/packages/backend/src/agents/sets/spatial_calculator.py.             *)
(*                                                                         *)
(* Python floats are modelled as fixed-point numbers: the integer v stands *)
(* for the real v / ONE.  TLC integers are 32 bits wide, so products and   *)
(* quotients are computed in pieces (Mul, Div) that never overflow for the *)
(* magnitudes the calculator produces (all below 21.0).                    *)
(***************************************************************************)
EXTENDS Integers, Sequences, FiniteSets, TLC

VARIABLES
    set_a, set_b,       \* the two input sets of calculate_layout / pack_elements
    pc,                 \* position of the caller in the pipeline
    layout,             \* the VennLayout returned by calculate_layout
    positions,          \* the dict returned by pack_elements
    all_numbers,        \* the elements argument passed to pack_elements
    sR, sReq,           \* _solve_lens_separation: arguments R, required_area
    sBudget,            \* _solve_lens_separation: argument max_iterations
    sMin, sMax, sMid,   \* _solve_lens_separation: locals d_min, d_max, d_mid
    sIter,              \* _solve_lens_separation: loop iterations started
    sPc,                \* _solve_lens_separation: position in the function
    sRet,               \* _solve_lens_separation: returned value
    sD0,                \* the separation the solver's target area was taken from
    kR, kD1, kD2,       \* geometry kernel: arguments of two lens-area evaluations
    kA1, kA2,           \* geometry kernel: the two returned areas
    kDim2,              \* geometry kernel: the lens dimensions at the second separation
    kPc,                \* geometry kernel: position of the caller
    tN1, tN2,           \* _select_tier: the union sizes of two calls
    tRow1, tRow2,       \* _select_tier: the two returned (tier, params)
    tPc,                \* _select_tier: position of the caller
    table,              \* the class attribute TIER_THRESHOLDS, shared by all calls
    calls,              \* per caller of a shared calculator: its sets, its
                        \* position and the locals and results of its calls
    zRow,               \* region sizers: the index of the tier row passed in
    zA, zB,             \* _calculate_crescent_parameters: a_only_size, b_only_size
    zN,                 \* _calculate_lens_parameters: intersection_size
    zOut,               \* region sizers: the returned dict
    zPc                 \* region sizers: position of the caller

vars == <<set_a, set_b, pc, layout, positions, all_numbers,
          sR, sReq, sBudget, sMin, sMax, sMid, sIter, sPc, sRet, sD0,
          kR, kD1, kD2, kA1, kA2, kDim2, kPc,
          tN1, tN2, tRow1, tRow2, tPc, table, calls,
          zRow, zA, zB, zN, zOut, zPc>>

pipeVars   == <<set_a, set_b, pc, layout, positions, all_numbers>>
solverVars == <<sR, sReq, sBudget, sMin, sMax, sMid, sIter, sPc, sRet, sD0>>
kernelVars == <<kR, kD1, kD2, kA1, kA2, kDim2, kPc>>
tierVars   == <<tN1, tN2, tRow1, tRow2, tPc>>
sharedVars == <<table, calls>>
sizerVars  == <<zRow, zA, zB, zN, zOut, zPc>>

(***************************************************************************)
(* Fixed-point arithmetic.  An intermediate value that is read more than   *)
(* once is passed as an operator argument, so that it is computed once.    *)
(***************************************************************************)
ONE == 10^6                     \* the fixed-point unit: 1.0
HALF == ONE \div 2

Abs(x) == IF x < 0 THEN -x ELSE x
Sgn(x) == IF x < 0 THEN -1 ELSE 1
Max(x, y) == IF x >= y THEN x ELSE y
Min(x, y) == IF x <= y THEN x ELSE y

\* floor(a * b / ONE) for a, b >= 0, in base-1000 limbs
MulAbs(a, b) ==
    LET a1 == a \div 1000  a0 == a % 1000
        b1 == b \div 1000  b0 == b % 1000
    IN  a1 * b1 + ((a1 * b0 + a0 * b1) + ((a0 * b0) \div 1000)) \div 1000

\* a * b, truncated toward zero
Mul(a, b) == Sgn(a) * Sgn(b) * MulAbs(Abs(a), Abs(b))

\* floor(a * ONE / b) for a >= 0, b > 0, by long division in base 100
DivAbs(a, b) ==
    LET q0 == a \div b          r0 == a % b
        q1 == (r0 * 100) \div b r1 == (r0 * 100) % b
        q2 == (r1 * 100) \div b r2 == (r1 * 100) % b
        q3 == (r2 * 100) \div b
    IN  q0 * ONE + q1 * 10000 + q2 * 100 + q3

\* a / b, truncated toward zero (b # 0)
Div(a, b) == Sgn(a) * Sgn(b) * DivAbs(Abs(a), Abs(b))

\* int(a / b) of Python for a >= 0, b > 0: the quotient without its fraction
IntDiv(a, b) == a \div b

\* math.sqrt: Newton's iteration from above, r' = (r + v/r) / 2
RECURSIVE SqrtIter(_, _)
SqrtNext(v, r, n) == IF n >= r THEN r ELSE SqrtIter(v, n)
SqrtIter(v, r) == SqrtNext(v, r, (r + DivAbs(v, r)) \div 2)

Sqrt(v) == IF v <= 0 THEN 0 ELSE SqrtIter(v, Max(v, ONE))

PI == 3141593                   \* math.pi
HALF_PI == PI \div 2

\* arcsin by its power series, for 0 <= x <= 1/2:
\*   term_k = term_(k-1) * x^2 * (2k-1)^2 / (2k (2k+1))
AsinTerms == 12
AsinTerm(x2, term, k) ==
    (MulAbs(term, x2) * (2*k - 1) * (2*k - 1) + k * (2*k + 1)) \div (2*k * (2*k + 1))

RECURSIVE AsinSeries(_, _, _, _)
AsinAdd(x2, t, k, acc) == AsinSeries(x2, t, k + 1, acc + t)
AsinSeries(x2, term, k, acc) ==
    IF term = 0 \/ k > AsinTerms THEN acc
    ELSE AsinAdd(x2, AsinTerm(x2, term, k), k, acc)

Asin(x) == AsinSeries(MulAbs(x, x), x, 1, x)

\* math.acos for 0 <= x <= 1:
\*   acos x = pi/2 - asin x            (x <= 1/2)
\*   acos x = 2 asin sqrt((1 - x)/2)   (x >  1/2)
Acos(x) ==
    IF x >= ONE THEN 0
    ELSE IF x <= HALF THEN HALF_PI - Asin(x)
    ELSE 2 * Asin(Sqrt(2 * (ONE - x)) \div 2)

(***************************************************************************)
(* Class constants and defaults                                            *)
(***************************************************************************)
FONT_TO_MANIM_CONVERSION == 95  \* font_size / 95 = scene units
SAFETY_MARGIN == 1150000        \* 1.15
EFFICIENCY_NUM == 3             \* PACKING_EFFICIENCY = 0.75 = 3/4
EFFICIENCY_DEN == 4
TOLERANCE == 5000               \* tolerance = 0.005
MAX_ITERATIONS == 100           \* max_iterations = 100
UNREACHABLE_FRACTION == 950000  \* max_possible * 0.95
OVERLAP_FACTOR == 1100000       \* d_min * 1.1
FLOOR_AREA == 100000            \* required_area = 0.1 for an empty intersection
FLOOR_RADIUS == 100000          \* calc_radius returns 0.1 for an empty crescent
CRESCENT_FRACTION == 650000     \* max_crescent_radius = base_radius * 0.65
SHRINK_MARGIN == 900000         \* scale_factor = ... * 0.9
CENTER_OFFSET == 350000         \* crescent packing center: circle_radius * 0.35
HEX_ROW == 866000               \* hex_spacing_y = spacing * 0.866

\* TIER_THRESHOLDS; the last threshold is float('inf')
INF == -1
TIER_THRESHOLDS ==
    << [threshold |-> 15,  tier |-> "comfortable",
        params |-> [radius |-> 2200000, font |-> 38, padding |-> 350000]],
       [threshold |-> 25,  tier |-> "moderate",
        params |-> [radius |-> 2000000, font |-> 32, padding |-> 280000]],
       [threshold |-> 40,  tier |-> "tight",
        params |-> [radius |-> 1800000, font |-> 28, padding |-> 220000]],
       [threshold |-> 60,  tier |-> "very_tight",
        params |-> [radius |-> 1500000, font |-> 24, padding |-> 180000]],
       [threshold |-> INF, tier |-> "warning",
        params |-> [radius |-> 1200000, font |-> 20, padding |-> 150000]] >>

TierRadii == {TIER_THRESHOLDS[i].params.radius : i \in DOMAIN TIER_THRESHOLDS}

\* a variant that compares with < instead of <=
RECURSIVE SelectTierFrom_strict(_, _)
SelectTierFrom_strict(union_size, i) ==
    IF i > Len(TIER_THRESHOLDS) THEN TIER_THRESHOLDS[Len(TIER_THRESHOLDS)]
    ELSE IF TIER_THRESHOLDS[i].threshold = INF
            \/ union_size < TIER_THRESHOLDS[i].threshold
         THEN TIER_THRESHOLDS[i]
         ELSE SelectTierFrom_strict(union_size, i + 1)

\* _select_tier: the first row whose threshold is not below union_size
RECURSIVE SelectTierFrom(_, _)
SelectTierFrom(union_size, i) ==
    IF i > Len(TIER_THRESHOLDS) THEN TIER_THRESHOLDS[Len(TIER_THRESHOLDS)]
    ELSE IF TIER_THRESHOLDS[i].threshold = INF
            \/ union_size <= TIER_THRESHOLDS[i].threshold
         THEN TIER_THRESHOLDS[i]
         ELSE SelectTierFrom(union_size, i + 1)

select_tier(union_size) == SelectTierFrom(union_size, 1)

(***************************************************************************)
(* Geometry kernel                                                         *)
(***************************************************************************)
\* a variant whose second term is d * sqrt(...), without the half
calculate_lens_area_nohalf(R, d) ==
    IF d >= 2 * R THEN 0
    ELSE IF d <= 0 THEN Mul(PI, Mul(R, R))
    ELSE Max(0, 2 * Mul(Mul(R, R), Acos(Div(d, 2 * R)))
                  - Mul(d, Sqrt(4 * Mul(R, R) - Mul(d, d))))

\* _calculate_lens_area: 2 R^2 acos(d / 2R) - (d/2) sqrt(4 R^2 - d^2)
calculate_lens_area(R, d) ==
    IF d >= 2 * R THEN 0
    ELSE IF d <= 0 THEN Mul(PI, Mul(R, R))
    ELSE LET part1 == 2 * Mul(Mul(R, R), Acos(Div(d, 2 * R)))
             part2 == Mul(d \div 2, Sqrt(4 * Mul(R, R) - Mul(d, d)))
         IN  Max(0, part1 - part2)

\* a variant without the early return for d >= 2R
calculate_lens_dimensions_unguarded(R, d) ==
    <<2 * R - d, 2 * Sqrt(Mul(R, R) - Mul(d \div 2, d \div 2))>>

\* _calculate_lens_dimensions: <<width, height>>
calculate_lens_dimensions(R, d) ==
    IF d >= 2 * R THEN <<0, 0>>
    ELSE <<2 * R - d, 2 * Sqrt(Mul(R, R) - Mul(d \div 2, d \div 2))>>

(***************************************************************************)
(* Separation solver                                                       *)
(***************************************************************************)
\* a variant that compares with max_possible itself, without the 0.95
Unreachable_full(R, required_area) ==
    required_area > Mul(PI, Mul(R, R))

\* the precondition check of _solve_lens_separation
Unreachable(R, required_area) ==
    required_area > Mul(Mul(PI, Mul(R, R)), UNREACHABLE_FRACTION)

\* one pass of the loop body: the midpoint, whether it is returned, and the
\* bracket the next pass starts from
\* a variant whose convergence test lacks the abs()
StepOutcome_noabs(required_area, tolerance, d_min, d_max, d_mid, area_mid) ==
    [d_mid |-> d_mid,
     area  |-> area_mid,
     hit   |-> area_mid - required_area < tolerance,
     d_min |-> IF area_mid > required_area THEN d_mid ELSE d_min,
     d_max |-> IF area_mid > required_area THEN d_max ELSE d_mid]

\* a variant that moves the wrong end of the bracket
StepOutcome_reversed(required_area, tolerance, d_min, d_max, d_mid, area_mid) ==
    [d_mid |-> d_mid,
     area  |-> area_mid,
     hit   |-> Abs(area_mid - required_area) < tolerance,
     d_min |-> IF area_mid > required_area THEN d_min ELSE d_mid,
     d_max |-> IF area_mid > required_area THEN d_mid ELSE d_max]

\* the outcome of one pass of the loop body, given its midpoint and area
StepOutcome(required_area, tolerance, d_min, d_max, d_mid, area_mid) ==
    [d_mid |-> d_mid,
     area  |-> area_mid,
     hit   |-> Abs(area_mid - required_area) < tolerance,
     d_min |-> IF area_mid > required_area THEN d_mid ELSE d_min,
     d_max |-> IF area_mid > required_area THEN d_max ELSE d_mid]

\* a variant that cuts the bracket at a third
Midpoint_third(d_min, d_max) == (2 * d_min + d_max) \div 3

\* d_mid = (d_min + d_max) / 2
Midpoint(d_min, d_max) == (d_min + d_max) \div 2

BisectStep(R, required_area, tolerance, d_min, d_max) ==
    StepOutcome(required_area, tolerance, d_min, d_max, Midpoint(d_min, d_max),
                calculate_lens_area(R, Midpoint(d_min, d_max)))

\* the loop "for _ in range(max_iterations)"; i passes are done and d_mid
\* is the midpoint of the last one
RECURSIVE Bisect(_, _, _, _, _, _, _, _)
BisectOn(R, required_area, tolerance, max_iterations, i, s) ==
    IF s.hit THEN s.d_mid
    ELSE Bisect(R, required_area, tolerance, max_iterations,
                s.d_min, s.d_max, s.d_mid, i + 1)
Bisect(R, required_area, tolerance, max_iterations, d_min, d_max, d_mid, i) ==
    IF i >= max_iterations THEN d_mid
    ELSE BisectOn(R, required_area, tolerance, max_iterations, i,
                  BisectStep(R, required_area, tolerance, d_min, d_max))

\* _solve_lens_separation with explicit tolerance and max_iterations
solve_lens_separation_with(R, required_area, tolerance, max_iterations) ==
    IF Unreachable(R, required_area) THEN Mul(0, OVERLAP_FACTOR)
    ELSE Bisect(R, required_area, tolerance, max_iterations, 0, 2 * R, 0, 0)

\* _solve_lens_separation with its defaults
solve_lens_separation(R, required_area) ==
    solve_lens_separation_with(R, required_area, TOLERANCE, MAX_ITERATIONS)

(***************************************************************************)
(* Region sizer                                                            *)
(***************************************************************************)
\* font / FONT_TO_MANIM_CONVERSION
ElementSize(font) == (font * ONE) \div FONT_TO_MANIM_CONVERSION

\* (element_size + padding) ** 2
Footprint(element_size, padding) ==
    Mul(element_size + padding, element_size + padding)

\* (n * element_footprint) / PACKING_EFFICIENCY
PackedArea(n, element_footprint) ==
    (n * element_footprint * EFFICIENCY_DEN) \div EFFICIENCY_NUM

\* a variant without the safety margin of 1.15
RequiredLensArea_nomargin(intersection_size, base_font, base_padding) ==
    IF intersection_size > 0
    THEN PackedArea(intersection_size, Footprint(ElementSize(base_font), base_padding))
    ELSE FLOOR_AREA

\* a variant without the floor for an empty intersection
RequiredLensArea_nofloor(intersection_size, base_font, base_padding) ==
    Mul(PackedArea(intersection_size,
                   Footprint(ElementSize(base_font), base_padding)),
        SAFETY_MARGIN)

\* the required lens area of _calculate_lens_parameters
RequiredLensArea(intersection_size, base_font, base_padding) ==
    IF intersection_size > 0
    THEN Mul(PackedArea(intersection_size,
                        Footprint(ElementSize(base_font), base_padding)),
             SAFETY_MARGIN)
    ELSE FLOOR_AREA

\* _calculate_lens_parameters
\* the dict _calculate_lens_parameters returns for the solved separation
LensGeometry(base_radius, base_font, base_padding, circle_sep) ==
    [font_size         |-> base_font,
     element_size      |-> ElementSize(base_font),
     padding           |-> base_padding,
     circle_separation |-> circle_sep,
     area              |-> calculate_lens_area(base_radius, circle_sep),
     width             |-> calculate_lens_dimensions(base_radius, circle_sep)[1],
     height            |-> calculate_lens_dimensions(base_radius, circle_sep)[2]]

calculate_lens_parameters(intersection_size, base_radius, base_font, base_padding) ==
    LensGeometry(base_radius, base_font, base_padding,
        solve_lens_separation(base_radius,
            RequiredLensArea(intersection_size, base_font, base_padding)))

\* calc_radius, the closure of _calculate_crescent_parameters
calc_radius(n_elements, element_footprint) ==
    IF n_elements = 0 THEN FLOOR_RADIUS
    ELSE Sqrt(Div(PackedArea(n_elements, element_footprint), PI))

\* a variant with floor division, max_crescent_radius // max(r_a, r_b)
ScaleFactor_floor(max_crescent_radius, r_max) ==
    Mul((max_crescent_radius \div r_max) * ONE, SHRINK_MARGIN)

\* a variant without the margin of 0.9
ScaleFactor_nomargin(max_crescent_radius, r_max) ==
    Div(max_crescent_radius, r_max)

\* scale_factor = max_crescent_radius / max(r_a, r_b) * 0.9
ScaleFactor(max_crescent_radius, r_max) ==
    Mul(Div(max_crescent_radius, r_max), SHRINK_MARGIN)

\* the dict _calculate_crescent_parameters returns for the final font and
\* padding
CrescentGeometry(a_only_size, b_only_size, font, element_size, padding, footprint) ==
    [font_size    |-> font,
     element_size |-> element_size,
     padding      |-> padding,
     radii        |-> [a_only |-> calc_radius(a_only_size, footprint),
                       b_only |-> calc_radius(b_only_size, footprint)]]

\* the shrink branch: font and padding scaled down, radii recalculated
ShrunkTo(a_only_size, b_only_size, crescent_font, crescent_padding) ==
    CrescentGeometry(a_only_size, b_only_size, crescent_font,
                     ElementSize(crescent_font), crescent_padding,
                     Footprint(ElementSize(crescent_font), crescent_padding))

Shrink(a_only_size, b_only_size, base_font, base_padding, scale_factor) ==
    ShrunkTo(a_only_size, b_only_size,
             (base_font * scale_factor) \div ONE, Mul(base_padding, scale_factor))

\* the larger of the two crescent radii at the base font and padding
MaxBaseRadius(a_only_size, b_only_size, base_font, base_padding) ==
    Max(calc_radius(a_only_size, Footprint(ElementSize(base_font), base_padding)),
        calc_radius(b_only_size, Footprint(ElementSize(base_font), base_padding)))

\* the test of the shrink branch: max(r_a, r_b) > max_crescent_radius
Shrinks(a_only_size, b_only_size, base_radius, base_font, base_padding) ==
    MaxBaseRadius(a_only_size, b_only_size, base_font, base_padding)
        > Mul(base_radius, CRESCENT_FRACTION)

CrescentsFor(a_only_size, b_only_size, base_font, base_padding, max_crescent_radius, r_max) ==
    IF r_max > max_crescent_radius
    THEN Shrink(a_only_size, b_only_size, base_font, base_padding,
                ScaleFactor(max_crescent_radius, r_max))
    ELSE CrescentGeometry(a_only_size, b_only_size, base_font,
                          ElementSize(base_font), base_padding,
                          Footprint(ElementSize(base_font), base_padding))

\* _calculate_crescent_parameters
calculate_crescent_parameters(a_only_size, b_only_size, base_radius, base_font, base_padding) ==
    CrescentsFor(a_only_size, b_only_size, base_font, base_padding,
                 Mul(base_radius, CRESCENT_FRACTION),
                 MaxBaseRadius(a_only_size, b_only_size, base_font, base_padding))

(***************************************************************************)
(* calculate_layout                                                        *)
(***************************************************************************)
\* the warnings list built by calculate_layout
LayoutWarnings(lens_params, crescent_params) ==
    IF lens_params.font_size # crescent_params.font_size
    THEN << [warning   |-> "Different font sizes",
             lens      |-> lens_params.font_size,
             crescents |-> crescent_params.font_size] >>
    ELSE << >>

\* a variant that copies the crescent font and padding into the lens fields
VennLayout_shared(union_size, intersection_size, a_only_size, b_only_size, row, lens_params, crescent_params) ==
    [union_size            |-> union_size,
     intersection_size     |-> intersection_size,
     a_only_size           |-> a_only_size,
     b_only_size           |-> b_only_size,
     circle_radius         |-> row.params.radius,
     circle_separation     |-> lens_params.circle_separation,
     circle_a_center       |-> <<-(lens_params.circle_separation \div 2), 0, 0>>,
     circle_b_center       |-> <<lens_params.circle_separation \div 2, 0, 0>>,
     tier                  |-> row.tier,
     lens_font_size        |-> crescent_params.font_size,
     lens_element_size     |-> crescent_params.element_size,
     lens_padding          |-> crescent_params.padding,
     lens_area             |-> lens_params.area,
     lens_width            |-> lens_params.width,
     lens_height           |-> lens_params.height,
     crescent_font_size    |-> crescent_params.font_size,
     crescent_element_size |-> crescent_params.element_size,
     crescent_padding      |-> crescent_params.padding,
     crescent_radii        |-> crescent_params.radii,
     is_valid              |-> TRUE,
     warnings              |-> LayoutWarnings(lens_params, crescent_params)]

\* a variant that keeps circle A at the origin and moves circle B alone
VennLayout_offcenter(union_size, intersection_size, a_only_size, b_only_size, row, lens_params, crescent_params) ==
    [union_size            |-> union_size,
     intersection_size     |-> intersection_size,
     a_only_size           |-> a_only_size,
     b_only_size           |-> b_only_size,
     circle_radius         |-> row.params.radius,
     circle_separation     |-> lens_params.circle_separation,
     circle_a_center       |-> <<0, 0, 0>>,
     circle_b_center       |-> <<lens_params.circle_separation, 0, 0>>,
     tier                  |-> row.tier,
     lens_font_size        |-> lens_params.font_size,
     lens_element_size     |-> lens_params.element_size,
     lens_padding          |-> lens_params.padding,
     lens_area             |-> lens_params.area,
     lens_width            |-> lens_params.width,
     lens_height           |-> lens_params.height,
     crescent_font_size    |-> crescent_params.font_size,
     crescent_element_size |-> crescent_params.element_size,
     crescent_padding      |-> crescent_params.padding,
     crescent_radii        |-> crescent_params.radii,
     is_valid              |-> TRUE,
     warnings              |-> LayoutWarnings(lens_params, crescent_params)]

\* the VennLayout that calculate_layout returns
VennLayout(union_size, intersection_size, a_only_size, b_only_size, row, lens_params, crescent_params) ==
    [union_size            |-> union_size,
     intersection_size     |-> intersection_size,
     a_only_size           |-> a_only_size,
     b_only_size           |-> b_only_size,
     circle_radius         |-> row.params.radius,
     circle_separation     |-> lens_params.circle_separation,
     circle_a_center       |-> <<-(lens_params.circle_separation \div 2), 0, 0>>,
     circle_b_center       |-> <<lens_params.circle_separation \div 2, 0, 0>>,
     tier                  |-> row.tier,
     lens_font_size        |-> lens_params.font_size,
     lens_element_size     |-> lens_params.element_size,
     lens_padding          |-> lens_params.padding,
     lens_area             |-> lens_params.area,
     lens_width            |-> lens_params.width,
     lens_height           |-> lens_params.height,
     crescent_font_size    |-> crescent_params.font_size,
     crescent_element_size |-> crescent_params.element_size,
     crescent_padding      |-> crescent_params.padding,
     crescent_radii        |-> crescent_params.radii,
     is_valid              |-> TRUE,
     warnings              |-> LayoutWarnings(lens_params, crescent_params)]

\* a variant that passes intersection_size where b_only_size belongs
LayoutFrom_leak(union_size, intersection_size, a_only_size, b_only_size, row, lens_params) ==
    VennLayout(union_size, intersection_size, a_only_size, b_only_size, row,
        lens_params,
        calculate_crescent_parameters(a_only_size, intersection_size,
                                      row.params.radius,
                                      row.params.font, row.params.padding))

\* the rest of calculate_layout once the lens is sized: the crescents are
\* sized by their own call from the same tier parameters
LayoutFrom(union_size, intersection_size, a_only_size, b_only_size, row, lens_params) ==
    VennLayout(union_size, intersection_size, a_only_size, b_only_size, row,
        lens_params,
        calculate_crescent_parameters(a_only_size, b_only_size, row.params.radius,
                                      row.params.font, row.params.padding))

\* the body of calculate_layout once the tier row is selected
LayoutInTier(union_size, intersection_size, a_only_size, b_only_size, row) ==
    LayoutFrom(union_size, intersection_size, a_only_size, b_only_size, row,
        calculate_lens_parameters(intersection_size, row.params.radius,
                                  row.params.font, row.params.padding))

LayoutOfSizes(union_size, intersection_size, a_only_size, b_only_size) ==
    LayoutInTier(union_size, intersection_size, a_only_size, b_only_size,
                 select_tier(union_size))

\* calculate_layout(set_a, set_b)
calculate_layout(A, B) ==
    LayoutOfSizes(Cardinality(A \cup B), Cardinality(A \cap B),
                  Cardinality(A \ B), Cardinality(B \ A))

(***************************************************************************)
(* Packing engine                                                          *)
(***************************************************************************)
\* A packing call either raises (ZeroDivisionError, from a spacing of 0) or
\* returns a dict of positions.
EmptyDict == [e \in {} |-> <<0, 0, 0>>]
Raises == [raised |-> TRUE, positions |-> EmptyDict]
Returns(dict) == [raised |-> FALSE, positions |-> dict]

\* sorted(list(S)): the elements of a set of integers, ascending
RECURSIVE sorted(_)
sorted(S) ==
    IF S = {} THEN << >>
    ELSE LET m == CHOOSE x \in S : \A y \in S : x <= y
         IN  <<m>> \o sorted(S \ {m})

\* np.linalg.norm of the offset <<x, y, 0>>
Norm(x, y) == Sqrt(Mul(x, x) + Mul(y, y))

\* a variant without the half-column shift of the odd rows
LatticeX_square(row, col, hex_spacing_x) ==
    col * hex_spacing_x

\* a variant that shifts the odd rows above the center row only
LatticeX_above(row, col, hex_spacing_x) ==
    col * hex_spacing_x + (IF row > 0 /\ row % 2 # 0 THEN hex_spacing_x \div 2 ELSE 0)

\* the lattice point of (row, col): odd rows are shifted by half a column
LatticeX(row, col, hex_spacing_x) ==
    col * hex_spacing_x + (IF row % 2 # 0 THEN hex_spacing_x \div 2 ELSE 0)

LatticeY(row, hex_spacing_y) == row * hex_spacing_y

\* the offsets visited by "for row in range(-rows, rows + 1):
\* for col in range(-cols, cols + 1)", in that order
LatticeOffsets(rows, cols, hex_spacing_x, hex_spacing_y) ==
    LET nc == 2 * cols + 1
        nr == 2 * rows + 1
    IN  [k \in 1..(nr * nc) |->
            LET row == ((k - 1) \div nc) - rows
                col == ((k - 1) % nc) - cols
            IN  <<LatticeX(row, col, hex_spacing_x), LatticeY(row, hex_spacing_y)>>]

\* the boundary test of _hexagonal_pack: dist <= radius
InCircle(x, y, radius) == Norm(x, y) <= radius

\* the boundary test of _elliptical_pack: norm_x**2 + norm_y**2 <= 1, where
\* norm = 2 * offset / extent, or 0 for an extent of 0.  An offset beyond
\* the half extent fails the test whatever the other coordinate is.
InEllipse(x, y, width, height) ==
    /\ ~(width > 0  /\ 2 * Abs(x) > width)
    /\ ~(height > 0 /\ 2 * Abs(y) > height)
    /\ LET norm_x == IF width > 0  THEN Div(2 * x, width)  ELSE 0
           norm_y == IF height > 0 THEN Div(2 * y, height) ELSE 0
       IN  Mul(norm_x, norm_x) + Mul(norm_y, norm_y) <= ONE

\* a variant that puts an item before the items equally near
PlaceOf_unstable(list, k) ==
    Cardinality({j \in 1..Len(list) : \/ list[j].dist < list[k].dist
                                      \/ list[j].dist = list[k].dist /\ j >= k})

\* positions_list.sort(key=lambda x: x[0]): a stable sort by distance.  The
\* item generated k-th comes behind the items that are nearer and behind the
\* items equally near that were generated before it.
PlaceOf(list, k) ==
    Cardinality({j \in 1..Len(list) : \/ list[j].dist < list[k].dist
                                      \/ list[j].dist = list[k].dist /\ j <= k})

SortByDist(list) ==
    [r \in 1..Len(list) |-> list[CHOOSE k \in 1..Len(list) : PlaceOf(list, k) = r]]

\* the <<dist, pos>> entries appended to positions_list for the offsets
\* that passed the boundary test
Entries(center, kept) ==
    [i \in 1..Len(kept) |->
        [dist |-> Norm(kept[i][1], kept[i][2]),
         pos  |-> <<center[1] + kept[i][1], center[2] + kept[i][2], center[3]>>]]

\* a variant whose boundary test allows half a spacing beyond the radius
CircleLattice_loose(center, radius, hex_spacing_x, hex_spacing_y) ==
    Entries(center,
        SelectSeq(LatticeOffsets(IntDiv(2 * radius, hex_spacing_y) + 1,
                                 IntDiv(2 * radius, hex_spacing_x) + 1,
                                 hex_spacing_x, hex_spacing_y),
                  LAMBDA o : InCircle(o[1], o[2], radius + hex_spacing_x \div 2)))

\* the candidates of a circular region, in generation order
CircleLattice(center, radius, hex_spacing_x, hex_spacing_y) ==
    Entries(center,
        SelectSeq(LatticeOffsets(IntDiv(2 * radius, hex_spacing_y) + 1,
                                 IntDiv(2 * radius, hex_spacing_x) + 1,
                                 hex_spacing_x, hex_spacing_y),
                  LAMBDA o : InCircle(o[1], o[2], radius)))

CircleCandidates(center, radius, spacing) ==
    CircleLattice(center, radius, spacing, Mul(spacing, HEX_ROW))

\* a variant whose boundary test takes the half extents for the extents
EllipseLattice_narrow(center, width, height, hex_spacing_x, hex_spacing_y) ==
    Entries(center,
        SelectSeq(LatticeOffsets(IntDiv(height, hex_spacing_y) + 2,
                                 IntDiv(width, hex_spacing_x) + 2,
                                 hex_spacing_x, hex_spacing_y),
                  LAMBDA o : InEllipse(o[1], o[2], width \div 2, height \div 2)))

\* the candidates of the lens region, in generation order
EllipseLattice(center, width, height, hex_spacing_x, hex_spacing_y) ==
    Entries(center,
        SelectSeq(LatticeOffsets(IntDiv(height, hex_spacing_y) + 2,
                                 IntDiv(width, hex_spacing_x) + 2,
                                 hex_spacing_x, hex_spacing_y),
                  LAMBDA o : InEllipse(o[1], o[2], width, height)))

EllipseCandidates(center, width, height, spacing) ==
    EllipseLattice(center, width, height, spacing, Mul(spacing, HEX_ROW))

\* "for i, elem in enumerate(elements)": the i-th element gets the i-th
\* sorted candidate, and the center when the candidates are used up
IndexOf(elements, e) == CHOOSE j \in 1..Len(elements) : elements[j] = e

\* a variant without the else branch: elements beyond the candidates get
\* no entry
Assign_drop(elements, positions_list, center) ==
    [e \in {elements[i] : i \in 1..Min(Len(elements), Len(positions_list))} |->
        positions_list[IndexOf(elements, e)].pos]

\* a variant that indexes the candidates by the element itself
Assign_byvalue(elements, positions_list, center) ==
    [e \in {elements[i] : i \in 1..Len(elements)} |->
        IF e >= 1 /\ e <= Len(positions_list)
        THEN positions_list[e].pos
        ELSE center]

\* a variant whose else branch places the element at the origin
Assign_origin(elements, positions_list, center) ==
    [e \in {elements[i] : i \in 1..Len(elements)} |->
        IF IndexOf(elements, e) <= Len(positions_list)
        THEN positions_list[IndexOf(elements, e)].pos
        ELSE <<0, 0, 0>>]

Assign(elements, positions_list, center) ==
    [e \in {elements[i] : i \in 1..Len(elements)} |->
        IF IndexOf(elements, e) <= Len(positions_list)
        THEN positions_list[IndexOf(elements, e)].pos
        ELSE center]

\* _hexagonal_pack
hexagonal_pack(elements, center, radius, elem_size, padding) ==
    IF elem_size + padding = 0 \/ Mul(elem_size + padding, HEX_ROW) = 0 THEN Raises
    ELSE Returns(Assign(elements,
                        SortByDist(CircleCandidates(center, radius, elem_size + padding)),
                        center))

\* _elliptical_pack
elliptical_pack(elements, center, width, height, elem_size, padding) ==
    IF elem_size + padding = 0 \/ Mul(elem_size + padding, HEX_ROW) = 0 THEN Raises
    ELSE Returns(Assign(elements,
                        SortByDist(EllipseCandidates(center, width, height,
                                                     elem_size + padding)),
                        center))

\* positions.update(other): the entries of other replace those of positions
Update(positions_, other) ==
    [e \in DOMAIN positions_ \cup DOMAIN other |->
        IF e \in DOMAIN other THEN other[e] ELSE positions_[e]]

\* a variant that shifts the A-only packing center by the whole radius
ACenter_far(l) ==
    <<l.circle_a_center[1] - l.circle_radius,
      l.circle_a_center[2], l.circle_a_center[3]>>

\* the three packing centers of pack_elements
\* (ACenter, BCenter, LensCenter)
ACenter(l) ==
    <<l.circle_a_center[1] - Mul(l.circle_radius, CENTER_OFFSET),
      l.circle_a_center[2], l.circle_a_center[3]>>
\* a variant that puts the B-only packing center where the A-only one is
BCenter_left(l) ==
    <<l.circle_a_center[1] - Mul(l.circle_radius, CENTER_OFFSET),
      l.circle_a_center[2], l.circle_a_center[3]>>

BCenter(l) ==
    <<l.circle_b_center[1] + Mul(l.circle_radius, CENTER_OFFSET),
      l.circle_b_center[2], l.circle_b_center[3]>>
LensCenter(l) ==
    <<(l.circle_a_center[1] + l.circle_b_center[1]) \div 2,
      (l.circle_a_center[2] + l.circle_b_center[2]) \div 2,
      (l.circle_a_center[3] + l.circle_b_center[3]) \div 2>>

\* the three region packings of pack_elements; a region without elements
\* is skipped and contributes nothing
PackAOnly(A, B, l) ==
    IF A \ B = {} THEN Returns(EmptyDict)
    ELSE hexagonal_pack(sorted(A \ B), ACenter(l), l.crescent_radii.a_only,
                        l.crescent_element_size, l.crescent_padding)
PackLens(A, B, l) ==
    IF A \cap B = {} THEN Returns(EmptyDict)
    ELSE elliptical_pack(sorted(A \cap B), LensCenter(l), l.lens_width,
                         l.lens_height, l.lens_element_size, l.lens_padding)
PackBOnly(A, B, l) ==
    IF B \ A = {} THEN Returns(EmptyDict)
    ELSE hexagonal_pack(sorted(B \ A), BCenter(l), l.crescent_radii.b_only,
                        l.crescent_element_size, l.crescent_padding)

\* pack_elements(elements, set_a, set_b, layout); the regions are taken
\* from the sets, and the elements argument is not read
Merge(pa, pl, pb) ==
    IF pa.raised \/ pl.raised \/ pb.raised THEN Raises
    ELSE Returns(Update(Update(Update(EmptyDict, pa.positions),
                               pl.positions), pb.positions))

pack_elements(elements, A, B, l) ==
    Merge(PackAOnly(A, B, l), PackLens(A, B, l), PackBOnly(A, B, l))

(***************************************************************************)
(* Inputs and idle values                                                  *)
(***************************************************************************)
MaxSmall == 3           \* region sizes 0..MaxSmall are all tried
ShrinkSize == 9         \* a crescent large enough to take the shrink branch
DegradedSize == 21      \* an intersection too large for the lens to hold

RegionSizes == (0..MaxSmall) \cup {ShrinkSize, DegradedSize}

\* sets with na elements in A only, ni in both and nb in B only
SetA(na, ni, nb) == 1..(na + ni)
SetB(na, ni, nb) == (na + 1)..(na + ni + nb)

\* the same sizes with other elements: the B-only elements are the
\* smallest, the A-only elements the largest, all beyond RelabelOffset
RelabelOffset == 100
RelabelledA(na, ni, nb) == (RelabelOffset + nb + 1)..(RelabelOffset + nb + ni + na)
RelabelledB(na, ni, nb) == (RelabelOffset + 1)..(RelabelOffset + nb + ni)

\* the sizes of the self-test, A = {1..20} and B = {15..34}, and sizes whose
\* intersection has more elements than the lens has lattice points
SelfTestSizes == <<14, 6, 14>>
LensOverflowSizes == <<23, 38, 0>>

InputSizes ==
    (RegionSizes \X RegionSizes \X RegionSizes) \cup {SelfTestSizes, LensOverflowSizes}

Inputs ==
    {<<SetA(z[1], z[2], z[3]), SetB(z[1], z[2], z[3])>> : z \in InputSizes}
    \cup {<<RelabelledA(z[1], z[2], z[3]), RelabelledB(z[1], z[2], z[3])>> :
              z \in (0..MaxSmall) \X (0..MaxSmall) \X (0..MaxSmall)}

\* the element orders a caller passes
Reverse(seq) == [i \in 1..Len(seq) |-> seq[Len(seq) + 1 - i]]
ElementOrders(U) == {sorted(U), Reverse(sorted(U))}

NoLayout == [tier |-> "none"]
NoD0 == 0 - 1

PipeIdle ==
    /\ set_a = {} /\ set_b = {} /\ pc = "idle"
    /\ layout = NoLayout /\ positions = EmptyDict /\ all_numbers = << >>
SolverIdle ==
    /\ sR = 0 /\ sReq = 0 /\ sBudget = 0 /\ sMin = 0 /\ sMax = 0 /\ sMid = 0
    /\ sIter = 0 /\ sPc = "idle" /\ sRet = 0 /\ sD0 = NoD0
KernelIdle ==
    /\ kR = 0 /\ kD1 = 0 /\ kD2 = 0 /\ kA1 = 0 /\ kA2 = 0 /\ kPc = "idle"
    /\ kDim2 = <<0, 0>>

NoRow == [tier |-> "none"]
TierIdle ==
    /\ tN1 = 0 /\ tN2 = 0 /\ tRow1 = NoRow /\ tRow2 = NoRow /\ tPc = "idle"

\* the callers of a shared calculator, and a caller that has not called
Callers == {"c1", "c2"}
CallOf(A, B) ==
    [set_a |-> A, set_b |-> B, pc |-> "start", row |-> 0,
     lens_params |-> NoLayout, crescent_params |-> NoLayout,
     layout |-> NoLayout, positions |-> EmptyDict]
SharedIdle ==
    /\ table = TIER_THRESHOLDS
    /\ calls = [c \in Callers |-> CallOf({}, {})]
SizerIdle ==
    /\ zRow = 0 /\ zA = 0 /\ zB = 0 /\ zN = 0 /\ zOut = NoLayout /\ zPc = "idle"

(***************************************************************************)
(* _solve_lens_separation, one loop pass at a time                         *)
(***************************************************************************)
RadiusStep == 500000    \* radii RadiusStep, 2 RadiusStep, ... are tried
MaxRadiusK == 4
D0Steps == 40           \* separations j * 2R / D0Steps, 0 < j < D0Steps
AreaStep == 1000000     \* required areas AreaStep, 2 AreaStep, ... are tried
MaxAreaK == 16
SmallBudget == 3        \* a max_iterations too small for the loop to converge

Radii == TierRadii \cup {k * RadiusStep : k \in 1..MaxRadiusK}

SolverInit ==
    /\ sR \in Radii
    /\ \/ /\ sD0 \in {(j * 2 * sR) \div D0Steps : j \in 1..(D0Steps - 1)}
          /\ sReq = calculate_lens_area(sR, sD0)
       \/ /\ sD0 = NoD0
          /\ sReq \in {k * AreaStep : k \in 1..MaxAreaK}
    /\ sBudget \in {MAX_ITERATIONS, SmallBudget}
    /\ sMin = 0 /\ sMax = 0 /\ sMid = 0 /\ sIter = 0 /\ sRet = 0
    /\ sPc = "call"
    /\ PipeIdle
    /\ KernelIdle
    /\ TierIdle
    /\ SharedIdle
    /\ SizerIdle

\* d_min = 0; d_max = 2 * R; the precondition check and its early return
SolveEnter ==
    /\ sPc = "call"
    /\ sMin' = 0
    /\ sMax' = 2 * sR
    /\ IF Unreachable(sR, sReq)
       THEN sRet' = Mul(0, OVERLAP_FACTOR) /\ sPc' = "done"
       ELSE sRet' = sRet /\ sPc' = "loop"
    /\ UNCHANGED <<sR, sReq, sBudget, sMid, sIter, sD0>>
    /\ UNCHANGED pipeVars
    /\ UNCHANGED kernelVars
    /\ UNCHANGED tierVars
    /\ UNCHANGED sharedVars
    /\ UNCHANGED sizerVars

\* one pass of the for loop, or the return behind it when range() is used up
SolveStep ==
    /\ sPc = "loop"
    /\ IF sIter >= sBudget
       THEN /\ sRet' = sMid
            /\ sPc' = "done"
            /\ UNCHANGED <<sMin, sMax, sMid, sIter>>
       ELSE \E s \in {BisectStep(sR, sReq, TOLERANCE, sMin, sMax)} :
            /\ sMid' = s.d_mid
            /\ sIter' = sIter + 1
            /\ IF s.hit
               THEN sRet' = s.d_mid /\ sPc' = "done" /\ UNCHANGED <<sMin, sMax>>
               ELSE sMin' = s.d_min /\ sMax' = s.d_max /\ UNCHANGED <<sRet, sPc>>
    /\ UNCHANGED <<sR, sReq, sBudget, sD0>>
    /\ UNCHANGED pipeVars
    /\ UNCHANGED kernelVars
    /\ UNCHANGED tierVars
    /\ UNCHANGED sharedVars
    /\ UNCHANGED sizerVars

SolverNext == SolveEnter \/ SolveStep

SolverSpec == SolverInit /\ [][SolverNext]_vars

(***************************************************************************)
(* The caller's pipeline: calculate_layout, then pack_elements.  The       *)
(* solver call inside calculate_layout runs pass by pass (SolveEnter,      *)
(* SolveStep above).                                                       *)
(***************************************************************************)
Init ==
    /\ \E input \in Inputs :
          /\ set_a = input[1]
          /\ set_b = input[2]
    /\ pc = "start"
    /\ layout = NoLayout
    /\ positions = EmptyDict
    /\ all_numbers = << >>
    /\ SolverIdle
    /\ KernelIdle
    /\ TierIdle
    /\ SharedIdle
    /\ SizerIdle

TierRow == select_tier(Cardinality(set_a \cup set_b))

\* calculate_layout up to the call of _solve_lens_separation: set statistics,
\* tier, required lens area
BeginLayout ==
    /\ pc = "start"
    /\ pc' = "sizing"
    /\ sR' = TierRow.params.radius
    /\ sReq' = RequiredLensArea(Cardinality(set_a \cap set_b),
                                TierRow.params.font, TierRow.params.padding)
    /\ sBudget' = MAX_ITERATIONS
    /\ sPc' = "call"
    /\ UNCHANGED <<sMin, sMax, sMid, sIter, sRet, sD0>>
    /\ UNCHANGED <<set_a, set_b, layout, positions, all_numbers>>
    /\ UNCHANGED kernelVars
    /\ UNCHANGED tierVars
    /\ UNCHANGED sharedVars
    /\ UNCHANGED sizerVars

\* calculate_layout from the return of _solve_lens_separation on: lens
\* geometry, crescent parameters, circle centers, warnings, the VennLayout
FinishLayout ==
    /\ pc = "sizing"
    /\ sPc = "done"
    /\ layout' = LayoutFrom(Cardinality(set_a \cup set_b), Cardinality(set_a \cap set_b),
                            Cardinality(set_a \ set_b), Cardinality(set_b \ set_a),
                            TierRow,
                            LensGeometry(TierRow.params.radius, TierRow.params.font,
                                         TierRow.params.padding, sRet))
    /\ pc' = "layout"
    /\ UNCHANGED <<set_a, set_b, positions, all_numbers>>
    /\ UNCHANGED solverVars
    /\ UNCHANGED kernelVars
    /\ UNCHANGED tierVars
    /\ UNCHANGED sharedVars
    /\ UNCHANGED sizerVars

\* positions = calculator.pack_elements(elements, set_a, set_b, layout), with
\* the union listed in ascending order, as the self-test does, or descending
PackElements ==
    /\ pc = "layout"
    /\ \E order \in ElementOrders(set_a \cup set_b) :
       \E r \in {pack_elements(order, set_a, set_b, layout)} :
          /\ all_numbers' = order
          /\ positions' = r.positions
          /\ pc' = IF r.raised THEN "raised" ELSE "packed"
    /\ UNCHANGED <<set_a, set_b, layout>>
    /\ UNCHANGED solverVars
    /\ UNCHANGED kernelVars
    /\ UNCHANGED tierVars
    /\ UNCHANGED sharedVars
    /\ UNCHANGED sizerVars

Next == BeginLayout \/ SolveEnter \/ SolveStep \/ FinishLayout \/ PackElements

Spec == Init /\ [][Next]_vars

\* the pass-by-pass run returns the layout that calculate_layout computes
LayoutMatches ==
    pc \in {"layout", "packed", "raised"} => layout = calculate_layout(set_a, set_b)

(***************************************************************************)
(* The geometry kernel evaluated at two separations                        *)
(***************************************************************************)
DStep == 250000         \* separations j * DStep, -GridBelow <= j <= GridAbove
GridBelow == 2
GridAbove == 20

Separations(R) == {j * DStep : j \in (-GridBelow)..GridAbove} \cup {2 * R}

KernelInit ==
    /\ kR \in Radii
    /\ kD1 \in Separations(kR)
    /\ kD2 \in Separations(kR)
    /\ kA1 = 0 /\ kA2 = 0 /\ kDim2 = <<0, 0>>
    /\ kPc = "call"
    /\ PipeIdle
    /\ SolverIdle
    /\ TierIdle
    /\ SharedIdle
    /\ SizerIdle

\* a1 = _calculate_lens_area(R, d1); a2 = _calculate_lens_area(R, d2);
\* dim2 = _calculate_lens_dimensions(R, d2)
EvaluateAreas ==
    /\ kPc = "call"
    /\ kA1' = calculate_lens_area(kR, kD1)
    /\ kA2' = calculate_lens_area(kR, kD2)
    /\ kDim2' = calculate_lens_dimensions(kR, kD2)
    /\ kPc' = "done"
    /\ UNCHANGED <<kR, kD1, kD2>>
    /\ UNCHANGED pipeVars
    /\ UNCHANGED solverVars
    /\ UNCHANGED tierVars
    /\ UNCHANGED sharedVars
    /\ UNCHANGED sizerVars

KernelNext == EvaluateAreas

KernelSpec == KernelInit /\ [][KernelNext]_vars

(***************************************************************************)
(* _select_tier called for two union sizes                                 *)
(***************************************************************************)
MaxUnion == 70          \* union sizes 0..MaxUnion are tried

\* the (tier, params) pair that _select_tier returns
TierResult(row) == [tier |-> row.tier, params |-> row.params]

TierInit ==
    /\ tN1 \in 0..MaxUnion
    /\ tN2 \in 0..MaxUnion
    /\ tRow1 = NoRow /\ tRow2 = NoRow
    /\ tPc = "call"
    /\ PipeIdle
    /\ SolverIdle
    /\ KernelIdle
    /\ SharedIdle
    /\ SizerIdle

\* r1 = _select_tier(n1); r2 = _select_tier(n2)
SelectTiers ==
    /\ tPc = "call"
    /\ tRow1' = TierResult(select_tier(tN1))
    /\ tRow2' = TierResult(select_tier(tN2))
    /\ tPc' = "done"
    /\ UNCHANGED <<tN1, tN2>>
    /\ UNCHANGED pipeVars
    /\ UNCHANGED solverVars
    /\ UNCHANGED kernelVars
    /\ UNCHANGED sharedVars
    /\ UNCHANGED sizerVars

TierNext == SelectTiers

TierSpec == TierInit /\ [][TierNext]_vars

(***************************************************************************)
(* Two callers of one calculator.  Each runs calculate_layout and then     *)
(* pack_elements; the steps of the two interleave.  tier_params is a       *)
(* reference into the shared table, so each step reads the table as it is  *)
(* when the step runs.                                                     *)
(***************************************************************************)
\* the sizes the two callers choose from
SharedSizes == {<<0, 0, 0>>, <<1, 1, 1>>, <<ShrinkSize, 2, 0>>, <<2, ShrinkSize, ShrinkSize>>}

\* _select_tier over a given table: the index of the first matching row
RECURSIVE SelectIndexIn(_, _, _)
SelectIndexIn(tbl, union_size, i) ==
    IF i > Len(tbl) THEN Len(tbl)
    ELSE IF tbl[i].threshold = INF \/ union_size <= tbl[i].threshold THEN i
    ELSE SelectIndexIn(tbl, union_size, i + 1)

\* a variant in which the shrink writes its font and padding back through
\* tier_params
CrescentWrites_shared(tbl, row, crescent_params) ==
    [tbl EXCEPT ![row].params.font = crescent_params.font_size,
                ![row].params.padding = crescent_params.padding]

\* the table after _calculate_crescent_parameters: the shrink rebinds the
\* function's own parameters base_font and base_padding, the table is not
\* written
CrescentWrites(tbl, row, crescent_params) == tbl

SharedInit ==
    /\ table = TIER_THRESHOLDS
    /\ \E z1 \in SharedSizes, z2 \in SharedSizes :
          calls = [c \in Callers |->
                      IF c = "c1"
                      THEN CallOf(SetA(z1[1], z1[2], z1[3]), SetB(z1[1], z1[2], z1[3]))
                      ELSE CallOf(RelabelledA(z2[1], z2[2], z2[3]),
                                  RelabelledB(z2[1], z2[2], z2[3]))]
    /\ PipeIdle
    /\ SolverIdle
    /\ KernelIdle
    /\ TierIdle
    /\ SizerIdle

SharedFrame ==
    /\ UNCHANGED pipeVars
    /\ UNCHANGED solverVars
    /\ UNCHANGED kernelVars
    /\ UNCHANGED tierVars
    /\ UNCHANGED sizerVars

\* calculate_layout: set statistics and tier, tier_params = _select_tier(...)
CallSelectTier(c) ==
    /\ calls[c].pc = "start"
    /\ calls' = [calls EXCEPT
          ![c].pc = "tier",
          ![c].row = SelectIndexIn(table,
                         Cardinality(calls[c].set_a \cup calls[c].set_b), 1)]
    /\ UNCHANGED table
    /\ SharedFrame

\* calculate_layout: lens_params = _calculate_lens_parameters(...)
CallLens(c) ==
    /\ calls[c].pc = "tier"
    /\ calls' = [calls EXCEPT
          ![c].pc = "lens",
          ![c].lens_params = calculate_lens_parameters(
               Cardinality(calls[c].set_a \cap calls[c].set_b),
               table[calls[c].row].params.radius,
               table[calls[c].row].params.font,
               table[calls[c].row].params.padding)]
    /\ UNCHANGED table
    /\ SharedFrame

\* calculate_layout: crescent_params = _calculate_crescent_parameters(...)
CallCrescents(c) ==
    /\ calls[c].pc = "lens"
    /\ \E cp \in {calculate_crescent_parameters(
                      Cardinality(calls[c].set_a \ calls[c].set_b),
                      Cardinality(calls[c].set_b \ calls[c].set_a),
                      table[calls[c].row].params.radius,
                      table[calls[c].row].params.font,
                      table[calls[c].row].params.padding)} :
          /\ calls' = [calls EXCEPT ![c].pc = "crescents", ![c].crescent_params = cp]
          /\ table' = CrescentWrites(table, calls[c].row, cp)
    /\ SharedFrame

\* calculate_layout: circle centers, warnings and the returned VennLayout
CallFinish(c) ==
    /\ calls[c].pc = "crescents"
    /\ calls' = [calls EXCEPT
          ![c].pc = "layout",
          ![c].layout = VennLayout(
               Cardinality(calls[c].set_a \cup calls[c].set_b),
               Cardinality(calls[c].set_a \cap calls[c].set_b),
               Cardinality(calls[c].set_a \ calls[c].set_b),
               Cardinality(calls[c].set_b \ calls[c].set_a),
               table[calls[c].row], calls[c].lens_params, calls[c].crescent_params)]
    /\ UNCHANGED table
    /\ SharedFrame

\* pack_elements(sorted(set_a | set_b), set_a, set_b, layout)
CallPack(c) ==
    /\ calls[c].pc = "layout"
    /\ \E r \in {pack_elements(sorted(calls[c].set_a \cup calls[c].set_b),
                               calls[c].set_a, calls[c].set_b, calls[c].layout)} :
          calls' = [calls EXCEPT
              ![c].pc = IF r.raised THEN "raised" ELSE "packed",
              ![c].positions = r.positions]
    /\ UNCHANGED table
    /\ SharedFrame

SharedNext ==
    \E c \in Callers :
        \/ CallSelectTier(c)
        \/ CallLens(c)
        \/ CallCrescents(c)
        \/ CallFinish(c)
        \/ CallPack(c)

SharedSpec == SharedInit /\ [][SharedNext]_vars

(***************************************************************************)
(* The two region sizers called on their own, for a tier row and a range   *)
(* of element counts                                                       *)
(***************************************************************************)
MaxCrescent == 40       \* crescent sizes 0..MaxCrescent are tried
MaxLens == 45           \* intersection sizes 0..MaxLens are tried

SizerInit ==
    /\ zRow \in DOMAIN TIER_THRESHOLDS
    /\ zA = 0 /\ zB = 0 /\ zN = 0
    /\ zOut = NoLayout
    /\ zPc = "call"
    /\ PipeIdle
    /\ SolverIdle
    /\ KernelIdle
    /\ TierIdle
    /\ SharedIdle

SizerFrame ==
    /\ UNCHANGED pipeVars
    /\ UNCHANGED solverVars
    /\ UNCHANGED kernelVars
    /\ UNCHANGED tierVars
    /\ UNCHANGED sharedVars

\* crescent_params = _calculate_crescent_parameters(a_only_size, b_only_size,
\* tier_params['radius'], tier_params['font'], tier_params['padding'])
SizeCrescents ==
    /\ zPc = "call"
    /\ \E a_only_size \in 0..MaxCrescent, b_only_size \in 0..MaxCrescent :
          /\ zA' = a_only_size
          /\ zB' = b_only_size
          /\ zOut' = calculate_crescent_parameters(a_only_size, b_only_size,
                          TIER_THRESHOLDS[zRow].params.radius,
                          TIER_THRESHOLDS[zRow].params.font,
                          TIER_THRESHOLDS[zRow].params.padding)
    /\ zPc' = "crescents"
    /\ UNCHANGED <<zRow, zN>>
    /\ SizerFrame

\* lens_params = _calculate_lens_parameters(intersection_size,
\* tier_params['radius'], tier_params['font'], tier_params['padding'])
SizeLens ==
    /\ zPc = "call"
    /\ \E intersection_size \in 0..MaxLens :
          /\ zN' = intersection_size
          /\ zOut' = calculate_lens_parameters(intersection_size,
                          TIER_THRESHOLDS[zRow].params.radius,
                          TIER_THRESHOLDS[zRow].params.font,
                          TIER_THRESHOLDS[zRow].params.padding)
    /\ zPc' = "lens"
    /\ UNCHANGED <<zRow, zA, zB>>
    /\ SizerFrame

SizerNext == SizeCrescents \/ SizeLens

SizerSpec == SizerInit /\ [][SizerNext]_vars

(***************************************************************************)
(* Properties                                                              *)
(***************************************************************************)
AOnly == set_a \ set_b
BOnly == set_b \ set_a
Both  == set_a \cap set_b
Union == set_a \cup set_b
TierNames == {TIER_THRESHOLDS[i].tier : i \in DOMAIN TIER_THRESHOLDS}
Packed == pc = "packed"
HasLayout == pc \in {"layout", "packed", "raised"}

\* C1: for any two finite sets, calculate_layout followed by pack_elements
\* completes without raising: no state is an error state, the solver call
\* stays within its iteration budget, and the results are a layout of one of
\* the tiers and a map from elements to points.
C1_AlwaysReturns ==
    /\ pc # "raised"
    /\ pc = "sizing" => sPc \in {"call", "loop", "done"} /\ sIter <= MAX_ITERATIONS
    /\ HasLayout => layout.tier \in TierNames /\ layout.is_valid
    /\ Packed => \A e \in DOMAIN positions : Len(positions[e]) = 3

C1_LargeUnionPacked == Packed /\ Cardinality(Union) > 60

\* C2: the position map has exactly one entry per element of A \cup B: its
\* key set is A \cup B, its size is union_size = a_only_size +
\* intersection_size + b_only_size, and the three region packings have
\* pairwise disjoint key sets.
C2_OneEntryPerElement ==
    Packed =>
        /\ DOMAIN positions = Union
        /\ Cardinality(DOMAIN positions) = layout.union_size
        /\ layout.union_size =
               layout.a_only_size + layout.intersection_size + layout.b_only_size
        /\ DOMAIN PackAOnly(set_a, set_b, layout).positions
               \cap DOMAIN PackLens(set_a, set_b, layout).positions = {}
        /\ DOMAIN PackAOnly(set_a, set_b, layout).positions
               \cap DOMAIN PackBOnly(set_a, set_b, layout).positions = {}
        /\ DOMAIN PackLens(set_a, set_b, layout).positions
               \cap DOMAIN PackBOnly(set_a, set_b, layout).positions = {}

C2_ThreeRegionsPacked == Packed /\ AOnly # {} /\ Both # {} /\ BOnly # {}

\* C3: all elements of A \cup B are placed at pairwise distinct points.
C3_CollisionFree ==
    Packed => \A e1 \in DOMAIN positions, e2 \in DOMAIN positions :
                  e1 # e2 => positions[e1] # positions[e2]

\* the boundary tests, on a position and the center of its region
WithinRadius(p, center, radius) ==
    Norm(p[1] - center[1], p[2] - center[2]) <= radius
WithinLens(p, center, width, height) ==
    /\ 2 * Abs(p[1] - center[1]) <= width
    /\ 2 * Abs(p[2] - center[2]) <= height
    /\ Mul(Div(2 * (p[1] - center[1]), width), Div(2 * (p[1] - center[1]), width))
         + Mul(Div(2 * (p[2] - center[2]), height), Div(2 * (p[2] - center[2]), height))
         <= ONE

\* C4: every returned position, from the lattice or from the center
\* fallback, passes the boundary test of its own region: a crescent
\* element is within crescent_radii[region] of the packing center, a lens
\* element satisfies (2x/lens_width)^2 + (2y/lens_height)^2 <= 1.
C4_InsideOwnRegion ==
    Packed =>
        /\ \A e \in AOnly : WithinRadius(positions[e], ACenter(layout),
                                         layout.crescent_radii.a_only)
        /\ \A e \in BOnly : WithinRadius(positions[e], BCenter(layout),
                                         layout.crescent_radii.b_only)
        /\ \A e \in Both : WithinLens(positions[e], LensCenter(layout),
                                      layout.lens_width, layout.lens_height)

\* an A-only element placed by the fallback next to lattice-placed elements
\* of the other regions
C4_FallbackAndLattice ==
    /\ Packed
    /\ \E e \in AOnly : /\ \E f \in AOnly : f < e
                        /\ positions[e] = ACenter(layout)
    /\ \E e \in Both : positions[e] # LensCenter(layout)

\* the tier parameters and region sizes of the current input
BaseRadius  == TierRow.params.radius
BaseFont    == TierRow.params.font
BasePadding == TierRow.params.padding
ShrinkTaken ==
    Shrinks(Cardinality(AOnly), Cardinality(BOnly), BaseRadius, BaseFont, BasePadding)

\* the layout calculate_layout would return with the shrink branch skipped
NoShrinkLayout ==
    VennLayout(Cardinality(Union), Cardinality(Both),
               Cardinality(AOnly), Cardinality(BOnly), TierRow,
               calculate_lens_parameters(Cardinality(Both), BaseRadius,
                                         BaseFont, BasePadding),
               CrescentGeometry(Cardinality(AOnly), Cardinality(BOnly), BaseFont,
                                ElementSize(BaseFont), BasePadding,
                                Footprint(ElementSize(BaseFont), BasePadding)))

LensFields(l) ==
    <<l.lens_font_size, l.lens_element_size, l.lens_padding, l.lens_area,
      l.lens_width, l.lens_height, l.circle_separation>>

\* every field but the four crescent parameters and the validation report
ShrinkFrame(l) ==
    [f \in DOMAIN l \ {"crescent_font_size", "crescent_element_size",
                       "crescent_padding", "crescent_radii", "warnings"} |-> l[f]]

\* every field but the four crescent parameters
CrescentFrame(l) ==
    [f \in DOMAIN l \ {"crescent_font_size", "crescent_element_size",
                       "crescent_padding", "crescent_radii"} |-> l[f]]

\* C5 as stated: when _calculate_crescent_parameters takes its shrink
\* branch, the lens fields and circle_separation of the layout are exactly
\* those of a layout of the same tier and intersection size without a shrink,
\* and the four crescent fields are the only fields of the layout that differ.
C5_OnlyCrescentFields ==
    (HasLayout /\ ShrinkTaken) =>
        /\ LensFields(layout) = LensFields(NoShrinkLayout)
        /\ LensFields(layout) =
               LensFields(LayoutInTier(Cardinality(Both), Cardinality(Both), 0, 0, TierRow))
        /\ CrescentFrame(layout) = CrescentFrame(NoShrinkLayout)

\* C5 amended: the same, except that besides the four crescent fields the
\* warnings list differs: it gains the "Different font sizes" entry.
C5_ShrinkLeavesLensAlone ==
    (HasLayout /\ ShrinkTaken) =>
        /\ LensFields(layout) = LensFields(NoShrinkLayout)
        /\ LensFields(layout) =
               LensFields(LayoutInTier(Cardinality(Both), Cardinality(Both), 0, 0, TierRow))
        /\ ShrinkFrame(layout) = ShrinkFrame(NoShrinkLayout)
        /\ NoShrinkLayout.warnings = << >>
        /\ Len(layout.warnings) = 1
        /\ layout.warnings[1].warning = "Different font sizes"

C5_ShrunkCrescents ==
    /\ HasLayout /\ ShrinkTaken
    /\ layout.crescent_font_size < layout.lens_font_size
    /\ layout.crescent_padding < layout.lens_padding
    /\ layout.crescent_radii # NoShrinkLayout.crescent_radii

LensView(l) == <<l.lens_font_size, l.lens_area, l.lens_width, l.lens_height>>
CrescentView(l) == <<l.crescent_font_size, l.crescent_padding, l.crescent_radii>>

\* the layouts of the inputs that differ from the current one in the
\* crescent sizes only, and in the intersection size only
WithCrescents(na, nb) ==
    LayoutOfSizes(na + Cardinality(Both) + nb, Cardinality(Both), na, nb)
WithIntersection(ni) ==
    LayoutOfSizes(Cardinality(AOnly) + ni + Cardinality(BOnly), ni,
                  Cardinality(AOnly), Cardinality(BOnly))
SameTier(union_size) == select_tier(union_size).tier = layout.tier

\* C6 as stated: for a fixed intersection size no A-only and B-only sizes
\* change the lens font, area, width or height, and for fixed A-only and
\* B-only sizes no intersection size changes the crescent font, padding or
\* radii.
C6_Independent ==
    pc = "layout" =>
        /\ \A na \in RegionSizes, nb \in RegionSizes :
              LensView(WithCrescents(na, nb)) = LensView(layout)
        /\ \A ni \in RegionSizes :
              CrescentView(WithIntersection(ni)) = CrescentView(layout)

\* C6 amended: the same, for the sizes that leave the union in the same tier.
C6_IndependentInTier ==
    pc = "layout" =>
        /\ \A na \in RegionSizes, nb \in RegionSizes :
              SameTier(na + Cardinality(Both) + nb) =>
                  LensView(WithCrescents(na, nb)) = LensView(layout)
        /\ \A ni \in RegionSizes :
              SameTier(Cardinality(AOnly) + ni + Cardinality(BOnly)) =>
                  CrescentView(WithIntersection(ni)) = CrescentView(layout)

C6_BothVaried ==
    /\ pc = "layout"
    /\ \E na \in RegionSizes, nb \in RegionSizes :
          /\ SameTier(na + Cardinality(Both) + nb)
          /\ CrescentView(WithCrescents(na, nb)) # CrescentView(layout)
    /\ \E ni \in RegionSizes :
          /\ SameTier(Cardinality(AOnly) + ni + Cardinality(BOnly))
          /\ LensView(WithIntersection(ni)) # LensView(layout)

\* the solver's target is beyond 95% of the full-overlap area pi R^2
BeyondReach(R, required_area) ==
    required_area > Mul(Mul(PI, Mul(R, R)), UNREACHABLE_FRACTION)
WithinTolerance(R, d, required_area) ==
    Abs(calculate_lens_area(R, d) - required_area) < TOLERANCE

\* C7 as stated: the solver runs at most max_iterations passes and returns
\* a d in [0, 2R] that is the first midpoint within tolerance of the target,
\* or the last midpoint when the budget is used up.
C7_ReturnsMidpoint ==
    /\ sIter <= sBudget
    /\ (sPc = "loop" /\ sIter > 0) => ~WithinTolerance(sR, sMid, sReq)
    /\ sPc = "done" =>
          /\ 0 <= sRet /\ sRet <= 2 * sR
          /\ sIter >= 1 /\ sRet = sMid
          /\ WithinTolerance(sR, sRet, sReq) \/ sIter = sBudget

\* C7 amended: the same, except that a target beyond 95% of pi R^2 returns 0
\* before the first pass.
C7_ReturnsMidpointOrZero ==
    /\ sIter <= sBudget
    /\ (sPc = "loop" /\ sIter > 0) => ~WithinTolerance(sR, sMid, sReq)
    /\ sPc = "done" =>
          /\ 0 <= sRet /\ sRet <= 2 * sR
          /\ IF BeyondReach(sR, sReq)
             THEN sIter = 0 /\ sRet = 0
             ELSE /\ sIter >= 1 /\ sRet = sMid
                  /\ WithinTolerance(sR, sRet, sReq) \/ sIter = sBudget

C7_BudgetUsedUp ==
    /\ sPc = "done" /\ sIter = sBudget /\ sRet = sMid
    /\ ~WithinTolerance(sR, sRet, sReq)

\* C8 as stated: for every d0 in (0, 2R), the separation solved for the
\* area of d0 has a lens area within tolerance of the area of d0.
C8_RoundTrip ==
    (sPc = "done" /\ sD0 # NoD0 /\ sBudget = MAX_ITERATIONS) =>
        Abs(calculate_lens_area(sR, sRet) - calculate_lens_area(sR, sD0)) < TOLERANCE

\* C8 amended: the same, for every d0 whose lens area is at most 95% of
\* pi R^2.
C8_RoundTripInReach ==
    (/\ sPc = "done" /\ sD0 # NoD0 /\ sBudget = MAX_ITERATIONS
     /\ ~BeyondReach(sR, calculate_lens_area(sR, sD0))) =>
        Abs(calculate_lens_area(sR, sRet) - calculate_lens_area(sR, sD0)) < TOLERANCE

C8_Converged ==
    /\ sPc = "done" /\ sD0 # NoD0 /\ sBudget = MAX_ITERATIONS
    /\ ~BeyondReach(sR, calculate_lens_area(sR, sD0))
    /\ sIter >= 4 /\ sRet # sD0

\* the required lens area of the current input
LensTarget == RequiredLensArea(Cardinality(Both), BaseFont, BasePadding)

\* C9: when the required lens area exceeds 95% of pi R^2 the solver returns
\* 0 at once, without a bisection pass, and the layout has circle_separation
\* 0, both circle centers at the origin and lens_area pi R^2.
C9_DegradedFit ==
    BeyondReach(BaseRadius, LensTarget) =>
        /\ (pc = "sizing" /\ sPc # "call") =>
               sPc = "done" /\ sIter = 0 /\ sRet = 0
        /\ HasLayout =>
               /\ sIter = 0
               /\ layout.circle_separation = 0
               /\ layout.circle_a_center = <<0, 0, 0>>
               /\ layout.circle_b_center = <<0, 0, 0>>
               /\ layout.lens_area = Mul(PI, Mul(BaseRadius, BaseRadius))

C9_DegradedLayout ==
    /\ pc = "layout" /\ BeyondReach(BaseRadius, LensTarget)
    /\ layout.circle_separation = 0

C11_Boundaries ==
    kPc = "done" =>
        /\ kD1 >= 2 * kR => kA1 = 0
        /\ kD1 <= 0 => kA1 = Mul(PI, Mul(kR, kR))
        /\ (0 < kD1 /\ kD1 < 2 * kR) =>
               0 <= kA1 /\ kA1 <= Mul(PI, Mul(kR, kR))
        /\ kD2 >= 2 * kR => kDim2 = <<0, 0>>

C11_AtBothEnds ==
    /\ kPc = "done"
    /\ kD1 = 0 /\ kA1 > 0
    /\ kD2 = 2 * kR /\ kA2 = 0 /\ kDim2 = <<0, 0>>

\* the sorted candidate lists of the three packing calls of the current layout
CrescentSpacing == layout.crescent_element_size + layout.crescent_padding
LensSpacing == layout.lens_element_size + layout.lens_padding
ACandidates ==
    CircleCandidates(ACenter(layout), layout.crescent_radii.a_only, CrescentSpacing)
BCandidates ==
    CircleCandidates(BCenter(layout), layout.crescent_radii.b_only, CrescentSpacing)
LensCandidates ==
    EllipseCandidates(LensCenter(layout), layout.lens_width, layout.lens_height,
                      LensSpacing)

\* the slack allowed below the nominal spacing
Epsilon == 1000

Dist(p, q) == Norm(p[1] - q[1], p[2] - q[2])

\* the elements of a region lie pairwise apart by the spacing, up to Epsilon
Spread(region, spacing) ==
    \A e1 \in region, e2 \in region :
        e1 # e2 => /\ positions[e1] # positions[e2]
                   /\ Dist(positions[e1], positions[e2]) >= spacing - Epsilon

\* C12: in a packing call with no more elements than lattice candidates
\* inside the boundary, every element gets a position inside or on the
\* boundary, the positions are pairwise distinct and no two of them are
\* closer than elem_size + padding minus Epsilon.
C12_Complete ==
    Packed =>
        /\ Cardinality(AOnly) <= Len(ACandidates) =>
              /\ AOnly \subseteq DOMAIN positions
              /\ \A e \in AOnly : WithinRadius(positions[e], ACenter(layout),
                                               layout.crescent_radii.a_only)
              /\ Spread(AOnly, CrescentSpacing)
        /\ Cardinality(BOnly) <= Len(BCandidates) =>
              /\ BOnly \subseteq DOMAIN positions
              /\ \A e \in BOnly : WithinRadius(positions[e], BCenter(layout),
                                               layout.crescent_radii.b_only)
              /\ Spread(BOnly, CrescentSpacing)
        /\ Cardinality(Both) <= Len(LensCandidates) =>
              /\ Both \subseteq DOMAIN positions
              /\ \A e \in Both : WithinLens(positions[e], LensCenter(layout),
                                            layout.lens_width, layout.lens_height)
              /\ Spread(Both, LensSpacing)

C12_RoomInBoth ==
    /\ Packed
    /\ Cardinality(AOnly) > MaxSmall /\ Cardinality(AOnly) <= Len(ACandidates)
    /\ Cardinality(Both) > MaxSmall /\ Cardinality(Both) <= Len(LensCandidates)

\* the elements of a packing call hold, in order, the sorted candidates and
\* then the center
FilledThenCenter(elems, sorted_candidates, center) ==
    \A i \in 1..Len(elems) :
        positions[elems[i]] = IF i <= Len(sorted_candidates)
                              THEN sorted_candidates[i].pos
                              ELSE center

\* C13: in a packing call with more elements than lattice candidates inside
\* the boundary, the first len(candidates) elements get the candidates,
\* every remaining element is at exactly the region center, nothing is
\* raised and every element has a position.
C13_CenterFallback ==
    /\ (pc \in {"packed", "raised"}
        /\ \/ Cardinality(AOnly) > Len(ACandidates)
           \/ Cardinality(BOnly) > Len(BCandidates)
           \/ Cardinality(Both) > Len(LensCandidates)) => pc = "packed"
    /\ Packed =>
        /\ Cardinality(AOnly) > Len(ACandidates) =>
              /\ AOnly \subseteq DOMAIN positions
              /\ FilledThenCenter(sorted(AOnly), SortByDist(ACandidates),
                                  ACenter(layout))
        /\ Cardinality(BOnly) > Len(BCandidates) =>
              /\ BOnly \subseteq DOMAIN positions
              /\ FilledThenCenter(sorted(BOnly), SortByDist(BCandidates),
                                  BCenter(layout))
        /\ Cardinality(Both) > Len(LensCandidates) =>
              /\ Both \subseteq DOMAIN positions
              /\ FilledThenCenter(sorted(Both), SortByDist(LensCandidates),
                                  LensCenter(layout))

\* a lens with more elements than lattice points: some get lattice points
\* away from the center, the last one the center
C13_LensOverflows ==
    /\ Packed
    /\ Cardinality(Both) > Len(LensCandidates)
    /\ \E e \in Both : positions[e] # LensCenter(layout)
    /\ \E e \in Both : positions[e] = LensCenter(layout) /\ e # sorted(Both)[1]

\* the elements of a region in the order in which the caller listed them
InCallerOrder(region) == SelectSeq(all_numbers, LAMBDA e : e \in region)

\* C14: within each region the elements get the distance-sorted candidates
\* 1:1 in the order in which they appear in the elements sequence passed to
\* pack_elements.
C14_CallerOrder ==
    Packed =>
        /\ FilledThenCenter(InCallerOrder(AOnly), SortByDist(ACandidates),
                            ACenter(layout))
        /\ FilledThenCenter(InCallerOrder(BOnly), SortByDist(BCandidates),
                            BCenter(layout))
        /\ FilledThenCenter(InCallerOrder(Both), SortByDist(LensCandidates),
                            LensCenter(layout))

\* the input with the sizes of the current one and the elements 1, 2, ...
SameSizesA == SetA(Cardinality(AOnly), Cardinality(Both), Cardinality(BOnly))
SameSizesB == SetB(Cardinality(AOnly), Cardinality(Both), Cardinality(BOnly))

\* the k-th smallest element of a region is where other_positions has the
\* k-th smallest element of other_region
SamePlaces(region, other_region, other_positions) ==
    \A k \in 1..Cardinality(region) :
        positions[sorted(region)[k]] = other_positions[sorted(other_region)[k]]

SamePlacesIn(other_a, other_b, other_positions) ==
    /\ SamePlaces(AOnly, other_a \ other_b, other_positions)
    /\ SamePlaces(Both, other_a \cap other_b, other_positions)
    /\ SamePlaces(BOnly, other_b \ other_a, other_positions)

\* C15: an input with the same three region sizes and other elements has
\* the same layout (tier, radius, separation, centers, lens and crescent
\* parameters), and pack_elements places the k-th smallest element of each
\* region at the same point.
C15_SizesOnly ==
    /\ HasLayout => layout = calculate_layout(SameSizesA, SameSizesB)
    /\ Packed =>
          SamePlacesIn(SameSizesA, SameSizesB,
                       pack_elements(sorted(SameSizesA \cup SameSizesB),
                                     SameSizesA, SameSizesB,
                                     calculate_layout(SameSizesA, SameSizesB)).positions)

C15_OtherElements ==
    /\ Packed
    /\ set_a # SameSizesA /\ set_b # SameSizesB
    /\ Cardinality(AOnly) = MaxSmall /\ Cardinality(BOnly) = MaxSmall
    /\ Cardinality(Both) = MaxSmall
    /\ \E e \in AOnly : positions[e] # ACenter(layout)

\* the tier table as specified
Params(radius, font, padding) == [radius |-> radius, font |-> font, padding |-> padding]
ListedTier(n) ==
    IF n <= 15 THEN [tier |-> "comfortable", params |-> Params(2200000, 38, 350000)]
    ELSE IF n <= 25 THEN [tier |-> "moderate", params |-> Params(2000000, 32, 280000)]
    ELSE IF n <= 40 THEN [tier |-> "tight", params |-> Params(1800000, 28, 220000)]
    ELSE IF n <= 60 THEN [tier |-> "very_tight", params |-> Params(1500000, 24, 180000)]
    ELSE [tier |-> "warning", params |-> Params(1200000, 20, 150000)]

\* C16: _select_tier returns the tier the table lists for the union size
\* (<= 15 comfortable, 16..25 moderate, 26..40 tight, 41..60 very_tight,
\* larger warning, each with its radius, font and padding); equal sizes give
\* equal results, and radius, font and padding do not grow with the size.
C16_TierTable ==
    tPc = "done" =>
        /\ tRow1 = ListedTier(tN1)
        /\ tRow2 = ListedTier(tN2)
        /\ tN1 = tN2 => tRow1 = tRow2
        /\ tN1 <= tN2 =>
              /\ tRow1.params.radius >= tRow2.params.radius
              /\ tRow1.params.font >= tRow2.params.font
              /\ tRow1.params.padding >= tRow2.params.padding

C16_AcrossTiers ==
    /\ tPc = "done"
    /\ tN1 = 60 /\ tRow1.tier = "very_tight"
    /\ tN2 = 61 /\ tRow2.tier = "warning"

\* some region has more elements than lattice candidates
Overflows ==
    \/ Cardinality(AOnly) > Len(ACandidates)
    \/ Cardinality(BOnly) > Len(BCandidates)
    \/ Cardinality(Both) > Len(LensCandidates)

\* what the caller holds could tell it of an overflow: a warning of the
\* layout other than the font one, a layout marked invalid, or an entry of
\* the position map that is not an element's position
Reported ==
    \/ \E i \in DOMAIN layout.warnings :
          layout.warnings[i].warning # "Different font sizes"
    \/ ~layout.is_valid
    \/ DOMAIN positions # Union

\* C18: whenever pack_elements places an element by the center fallback,
\* the caller receives a diagnostic that reports it.
C18_OverflowReported ==
    (Packed /\ Overflows) => Reported

\* the two end-to-end scenarios
IsSelfTest == set_a = 1..20 /\ set_b = 15..34
IsSmallOverlap == set_a = 1..5 /\ set_b = 4..8

\* C19: for A = {1..20} and B = {15..34} the layout has union_size 34, tier
\* tight, intersection_size 6, a_only_size 14, b_only_size 14 and a lens
\* area strictly between 0 and pi * circle_radius^2, and pack_elements
\* returns 34 entries with pairwise distinct positions.
C19_SelfTest ==
    IsSelfTest =>
        /\ HasLayout =>
              /\ layout.union_size = 34
              /\ layout.tier = "tight"
              /\ layout.intersection_size = 6
              /\ layout.a_only_size = 14
              /\ layout.b_only_size = 14
              /\ layout.lens_area > 0
              /\ layout.lens_area < Mul(PI, Mul(layout.circle_radius, layout.circle_radius))
        /\ pc # "raised"
        /\ Packed =>
              /\ Cardinality(DOMAIN positions) = 34
              /\ \A e1 \in DOMAIN positions, e2 \in DOMAIN positions :
                    e1 # e2 => positions[e1] # positions[e2]

C19_SelfTestPacked ==
    /\ IsSelfTest /\ Packed
    /\ layout.tier = "tight"

\* C20: for A = {1..5} and B = {4..8} the tier is comfortable, the
\* intersection is {4, 5}, both are placed inside the lens bound and the
\* distance between their positions is at least lens_padding.
C20_SmallOverlap ==
    IsSmallOverlap =>
        /\ Both = {4, 5}
        /\ HasLayout => layout.tier = "comfortable"
        /\ pc # "raised"
        /\ Packed =>
              /\ {4, 5} \subseteq DOMAIN positions
              /\ WithinLens(positions[4], LensCenter(layout),
                            layout.lens_width, layout.lens_height)
              /\ WithinLens(positions[5], LensCenter(layout),
                            layout.lens_width, layout.lens_height)
              /\ Dist(positions[4], positions[5]) >= layout.lens_padding

C20_SmallOverlapPacked ==
    /\ IsSmallOverlap /\ Packed
    /\ positions[4] # positions[5]

\* C17: the calls write nothing that outlives them: the shared tier table
\* stays as it is, no step changes a caller's sets or a layout already
\* returned, and under every interleaving each caller gets the layout and
\* the positions that its calls return when they run alone.
C17_NoSharedState ==
    /\ [](/\ table = TIER_THRESHOLDS
          /\ \A c \in Callers :
                /\ calls[c].pc \in {"layout", "packed"} =>
                      calls[c].layout = calculate_layout(calls[c].set_a, calls[c].set_b)
                /\ calls[c].pc = "packed" =>
                      calls[c].positions =
                          pack_elements(sorted(calls[c].set_a \cup calls[c].set_b),
                                        calls[c].set_a, calls[c].set_b,
                                        calculate_layout(calls[c].set_a,
                                                         calls[c].set_b)).positions)
    /\ [][/\ table' = table
          /\ \A c \in Callers :
                /\ calls'[c].set_a = calls[c].set_a
                /\ calls'[c].set_b = calls[c].set_b
                /\ calls[c].pc \in {"layout", "packed"} =>
                      calls'[c].layout = calls[c].layout]_vars

\* both callers are done, one of them after a shrink, in the same tier
C17_BothDone ==
    /\ calls["c1"].pc = "packed" /\ calls["c2"].pc = "packed"
    /\ calls["c1"].layout.tier = calls["c2"].layout.tier
    /\ calls["c1"].layout.warnings # << >>
    /\ calls["c2"].layout.warnings = << >>
    /\ calls["c2"].positions # EmptyDict

\* the two disjoint sets of the third end-to-end scenario
IsDisjointPair == set_a = 1..2 /\ set_b = 3..4

\* C21: for disjoint sets such as A = {1, 2}, B = {3, 4} nothing is raised,
\* the required lens area is the floor 0.1, the returned lens_area is within
\* the solver tolerance of 0.1 with the circles still overlapping, and
\* pack_elements contributes no entry for the intersection; every region
\* without elements gets its nominal size (crescent radius 0.1, lens floor
\* area 0.1) and no positions.
C21_EmptyRegions ==
    /\ pc # "raised"
    /\ (pc = "sizing" /\ Both = {}) => sReq = FLOOR_AREA
    /\ (HasLayout /\ Both = {}) =>
          /\ Abs(layout.lens_area - FLOOR_AREA) < TOLERANCE
          /\ layout.lens_area > 0
          /\ layout.circle_separation < 2 * layout.circle_radius
    /\ (HasLayout /\ AOnly = {}) => layout.crescent_radii.a_only = FLOOR_RADIUS
    /\ (HasLayout /\ BOnly = {}) => layout.crescent_radii.b_only = FLOOR_RADIUS
    /\ (Packed /\ Both = {}) =>
          /\ PackLens(set_a, set_b, layout).positions = EmptyDict
          /\ DOMAIN positions = AOnly \cup BOnly
    /\ (Packed /\ AOnly = {}) => PackAOnly(set_a, set_b, layout).positions = EmptyDict
    /\ (Packed /\ BOnly = {}) => PackBOnly(set_a, set_b, layout).positions = EmptyDict

C21_DisjointPacked ==
    /\ IsDisjointPair /\ Packed
    /\ DOMAIN positions = 1..4
    /\ layout.intersection_size = 0
    /\ layout.circle_separation > 0

\* the solver's target can be reached: 0 < required_area <= 0.95 pi R^2
InReach == sReq > 0 /\ ~BeyondReach(sR, sReq)

\* the bracket of the bisection while the loop runs and when it has returned
Bracketed ==
    (InReach /\ sPc \in {"loop", "done"}) =>
        /\ 0 <= sMin /\ sMin <= sMax /\ sMax <= 2 * sR
        /\ sIter > 0 => sMin <= sMid /\ sMid <= sMax
        /\ calculate_lens_area(sR, sMin) >= sReq
        /\ sReq >= calculate_lens_area(sR, sMax)

\* a pass of the loop that does not return: the midpoint replaces the lower
\* end when its area is above the target, the upper end otherwise
PassMovesOneEnd ==
    (InReach /\ sPc = "loop" /\ sPc' = "loop" /\ sIter' = sIter + 1) =>
        /\ sMid' = Midpoint(sMin, sMax)
        /\ IF calculate_lens_area(sR, sMid') > sReq
           THEN sMin' = sMid' /\ sMin' >= sMin /\ sMax' = sMax
           ELSE sMax' = sMid' /\ sMax' <= sMax /\ sMin' = sMin

\* the width of the bracket before and after such a pass
HalvedExactly ==
    (InReach /\ sPc = "loop" /\ sPc' = "loop" /\ sIter' = sIter + 1) =>
        2 * (sMax' - sMin') = sMax - sMin
HalvedRounded ==
    (InReach /\ sPc = "loop" /\ sPc' = "loop" /\ sIter' = sIter + 1) =>
        sMax' - sMin' \in {(sMax - sMin) \div 2, (sMax - sMin) - (sMax - sMin) \div 2}

\* C22 as stated: throughout _solve_lens_separation, for a target in reach,
\* 0 <= d_min <= d_mid <= d_max <= 2R and area(d_min) >= target >=
\* area(d_max); a midpoint area above the target moves the lower end up to
\* the midpoint, otherwise the upper end moves down, and d_max - d_min is
\* exactly halved by each pass.
C22_BracketHalved ==
    /\ []Bracketed
    /\ [][PassMovesOneEnd /\ HalvedExactly]_vars

\* C22 amended: the same, with d_max - d_min halved up to the rounding of
\* the midpoint.
C22_BracketHalvedRounded ==
    /\ []Bracketed
    /\ [][PassMovesOneEnd /\ HalvedRounded]_vars

\* both ends of the bracket have moved and the loop is still running
C22_BothEndsMoved ==
    /\ InReach /\ sPc = "loop" /\ sIter >= 3
    /\ 0 < sMin /\ sMin < sMid /\ sMax < 2 * sR
    /\ sBudget = MAX_ITERATIONS

\* the place of a candidate in the list in generation order
GenIndex(candidates, entry) == CHOOSE k \in 1..Len(candidates) : candidates[k] = entry

\* the candidates were generated row by row, and left to right in a row
RowsThenColumns(candidates) ==
    \A k \in 1..Len(candidates), l \in 1..Len(candidates) :
        k < l => \/ candidates[k].pos[2] < candidates[l].pos[2]
                 \/ /\ candidates[k].pos[2] = candidates[l].pos[2]
                    /\ candidates[k].pos[1] < candidates[l].pos[1]

\* sorted_candidates holds the candidates by ascending distance, those at
\* equal distance in generation order
SortedStably(sorted_candidates, candidates) ==
    /\ Len(sorted_candidates) = Len(candidates)
    /\ \A i \in 1..Len(sorted_candidates) :
          \E k \in 1..Len(candidates) : candidates[k] = sorted_candidates[i]
    /\ \A i \in 1..Len(sorted_candidates), j \in 1..Len(sorted_candidates) :
          i < j =>
             /\ sorted_candidates[i].dist <= sorted_candidates[j].dist
             /\ sorted_candidates[i].dist = sorted_candidates[j].dist =>
                   GenIndex(candidates, sorted_candidates[i])
                       < GenIndex(candidates, sorted_candidates[j])

\* the i-th element holds the i-th sorted candidate, so that the elements
\* placed from the lattice lie at non-decreasing distances from the center
InnermostFirst(elems, sorted_candidates, center) ==
    /\ \A i \in 1..Len(elems) :
          i <= Len(sorted_candidates) => positions[elems[i]] = sorted_candidates[i].pos
    /\ \A i \in 1..Len(elems), j \in 1..Len(elems) :
          (i < j /\ j <= Len(sorted_candidates)) =>
              Dist(positions[elems[i]], center) <= Dist(positions[elems[j]], center)

FillOrder(elems, sorted_candidates, candidates, center) ==
    /\ RowsThenColumns(candidates)
    /\ SortedStably(sorted_candidates, candidates)
    /\ InnermostFirst(elems, sorted_candidates, center)

\* C23: in both packing functions the i-th element of the given sequence
\* receives the i-th candidate of the list sorted by ascending distance from
\* the region center, candidates at equal distance keeping their generation
\* order (rows ascending, then columns ascending); the elements placed from
\* the lattice lie at non-decreasing distances, and packing the same inputs
\* again returns the same position map.
C23_InnermostFirst ==
    Packed =>
        /\ FillOrder(sorted(AOnly), SortByDist(ACandidates), ACandidates,
                     ACenter(layout))
        /\ FillOrder(sorted(BOnly), SortByDist(BCandidates), BCandidates,
                     BCenter(layout))
        /\ FillOrder(sorted(Both), SortByDist(LensCandidates), LensCandidates,
                     LensCenter(layout))
        /\ positions = pack_elements(all_numbers, set_a, set_b, layout).positions

\* a region whose elements fill candidates at equal and at larger distances
C23_TiesAndRings ==
    /\ Packed
    /\ \E e1 \in AOnly, e2 \in AOnly, e3 \in AOnly :
          /\ e1 < e2 /\ e2 < e3
          /\ positions[e1] # positions[e2]
          /\ Dist(positions[e1], ACenter(layout)) = Dist(positions[e2], ACenter(layout))
          /\ Dist(positions[e2], ACenter(layout)) < Dist(positions[e3], ACenter(layout))

\* the hexagonal lattice as specified: columns s apart, rows 0.866 s apart,
\* odd rows (negative ones too) shifted by s / 2
HexPoint(row, col, s) ==
    <<col * s + (IF row % 2 = 1 THEN s \div 2 ELSE 0), row * Mul(s, HEX_ROW)>>

\* the lattice offsets of the rows -rows..rows and columns -cols..cols
HexPoints(rows, cols, s) ==
    {HexPoint(row, col, s) : row \in (-rows)..rows, col \in (-cols)..cols}

\* rows and columns looked at beyond the ranges of the packing functions
ExtraRings == 2

At(center, o) == <<center[1] + o[1], center[2] + o[2], center[3]>>

\* the lattice points inside a circle and inside the lens ellipse, searched
\* ExtraRings beyond the ranges of the code
CirclePoints(center, radius, s) ==
    {At(center, o) : o \in {o \in HexPoints(IntDiv(2 * radius, Mul(s, HEX_ROW)) + 1 + ExtraRings,
                                            IntDiv(2 * radius, s) + 1 + ExtraRings, s) :
                               InCircle(o[1], o[2], radius)}}
EllipsePoints(center, width, height, s) ==
    {At(center, o) : o \in {o \in HexPoints(IntDiv(height, Mul(s, HEX_ROW)) + 2 + ExtraRings,
                                            IntDiv(width, s) + 2 + ExtraRings, s) :
                               InEllipse(o[1], o[2], width, height)}}

\* a candidate list holds exactly the given points, each once, the center
\* among them
ExactlyThePoints(candidates, points, center) ==
    /\ {candidates[i].pos : i \in 1..Len(candidates)} = points
    /\ Len(candidates) = Cardinality(points)
    /\ center \in points

FirstAtCenter(region, center) ==
    region # {} => positions[sorted(region)[1]] = center

\* C24: with s = elem_size + padding the candidates are exactly the points
\* center + (col s + (s/2 for odd rows, negative ones too), row 0.866 s) that
\* pass the boundary test: the row and column ranges omit no lattice point
\* inside the boundary; the region center is always a candidate, so the
\* list is never empty and the first element of every non-empty region is
\* placed at the region center.
C24_CompleteLattice ==
    /\ HasLayout =>
          /\ ExactlyThePoints(ACandidates,
                 CirclePoints(ACenter(layout), layout.crescent_radii.a_only, CrescentSpacing),
                 ACenter(layout))
          /\ ExactlyThePoints(BCandidates,
                 CirclePoints(BCenter(layout), layout.crescent_radii.b_only, CrescentSpacing),
                 BCenter(layout))
          /\ ExactlyThePoints(LensCandidates,
                 EllipsePoints(LensCenter(layout), layout.lens_width, layout.lens_height,
                               LensSpacing),
                 LensCenter(layout))
    /\ Packed =>
          /\ FirstAtCenter(AOnly, ACenter(layout))
          /\ FirstAtCenter(BOnly, BCenter(layout))
          /\ FirstAtCenter(Both, LensCenter(layout))

\* candidates in odd rows below and above the center row, in all three regions
C24_OddRowsBothSides ==
    /\ Packed
    /\ AOnly # {} /\ BOnly # {} /\ Both # {}
    /\ \E i \in 1..Len(ACandidates), j \in 1..Len(ACandidates) :
          /\ ACandidates[i].pos[2] = -Mul(CrescentSpacing, HEX_ROW)
          /\ ACandidates[j].pos[2] = Mul(CrescentSpacing, HEX_ROW)
    /\ \E i \in 1..Len(LensCandidates) :
          LensCandidates[i].pos[2] = -Mul(LensSpacing, HEX_ROW)

\* C25: for every layout whose required lens area does not exceed 95% of
\* pi R^2, the lattice candidates inside the crescent disk of each crescent
\* are at least as many as the region's elements, and those inside the lens
\* ellipse at least intersection_size.
C25_RoomForAll ==
    (HasLayout /\ ~BeyondReach(BaseRadius, LensTarget)) =>
        /\ Len(ACandidates) >= layout.a_only_size
        /\ Len(BCandidates) >= layout.b_only_size
        /\ Len(LensCandidates) >= layout.intersection_size

\* C26: each intersection element's position is within circle_radius of
\* both circle centers, each A-only element's position is farther than
\* circle_radius from circle_b_center, and each B-only element's position
\* farther than circle_radius from circle_a_center.
C26_PlacedByMembership ==
    Packed =>
        /\ \A e \in Both :
              /\ Dist(positions[e], layout.circle_a_center) <= layout.circle_radius
              /\ Dist(positions[e], layout.circle_b_center) <= layout.circle_radius
        /\ \A e \in AOnly :
              Dist(positions[e], layout.circle_b_center) > layout.circle_radius
        /\ \A e \in BOnly :
              Dist(positions[e], layout.circle_a_center) > layout.circle_radius

\* C27: the crescent packing center is the circle center shifted outward by
\* 0.35 circle_radius and the crescent radius is at most 0.65 circle_radius,
\* so every A-only position, from the lattice or from the fallback, is
\* within circle_radius of circle_a_center, and every B-only position within
\* circle_radius of circle_b_center.
C27_InsideOwnCircle ==
    /\ HasLayout =>
          /\ ACenter(layout)[1] =
                 layout.circle_a_center[1] - Mul(layout.circle_radius, CENTER_OFFSET)
          /\ BCenter(layout)[1] =
                 layout.circle_b_center[1] + Mul(layout.circle_radius, CENTER_OFFSET)
          /\ layout.crescent_radii.a_only <= Mul(layout.circle_radius, CRESCENT_FRACTION)
          /\ layout.crescent_radii.b_only <= Mul(layout.circle_radius, CRESCENT_FRACTION)
    /\ Packed =>
          /\ \A e \in AOnly :
                Dist(positions[e], layout.circle_a_center) <= layout.circle_radius
          /\ \A e \in BOnly :
                Dist(positions[e], layout.circle_b_center) <= layout.circle_radius

\* crescents after a shrink, with elements on the far side of the packing
\* center, by the lattice and by the fallback
C27_FarSideFilled ==
    /\ Packed /\ ShrinkTaken
    /\ \E e \in AOnly :
          /\ positions[e][1] < ACenter(layout)[1]
          /\ Dist(positions[e], layout.circle_a_center)
                 > Mul(layout.circle_radius, CRESCENT_FRACTION)
    /\ \E e \in BOnly, f \in BOnly : e # f /\ positions[e] = positions[f]

\* the arguments of the sizer call and the crescent radii at the base font
ZRadius  == TIER_THRESHOLDS[zRow].params.radius
ZFont    == TIER_THRESHOLDS[zRow].params.font
ZPadding == TIER_THRESHOLDS[zRow].params.padding
ZBaseMax == MaxBaseRadius(zA, zB, ZFont, ZPadding)

\* scale = 0.65 base_radius / max(r_a, r_b) * 0.9
ZScale == Mul(Div(Mul(ZRadius, CRESCENT_FRACTION), ZBaseMax), SHRINK_MARGIN)

\* C28: _calculate_crescent_parameters shrinks exactly when max(r_a, r_b) >
\* 0.65 base_radius, to font = int(base_font * scale) and padding =
\* base_padding * scale with scale = 0.65 base_radius / max(r_a, r_b) * 0.9;
\* after that one recomputation, and without a shrink, both returned radii
\* are <= 0.65 base_radius for all element counts.
C28_OneShrink ==
    zPc = "crescents" =>
        /\ IF ZBaseMax > Mul(ZRadius, CRESCENT_FRACTION)
           THEN /\ zOut.font_size = (ZFont * ZScale) \div ONE
                /\ zOut.padding = Mul(ZPadding, ZScale)
                /\ ZScale < SHRINK_MARGIN
           ELSE /\ zOut.font_size = ZFont
                /\ zOut.padding = ZPadding
        /\ zOut.element_size = ElementSize(zOut.font_size)
        /\ zOut.radii.a_only =
               calc_radius(zA, Footprint(zOut.element_size, zOut.padding))
        /\ zOut.radii.b_only =
               calc_radius(zB, Footprint(zOut.element_size, zOut.padding))
        /\ zOut.radii.a_only <= Mul(ZRadius, CRESCENT_FRACTION)
        /\ zOut.radii.b_only <= Mul(ZRadius, CRESCENT_FRACTION)

\* a shrink for the largest counts of the tier with the smallest radius
C28_ShrunkAtMost ==
    /\ zPc = "crescents"
    /\ zRow = Len(TIER_THRESHOLDS) /\ zA = MaxCrescent /\ zB = MaxCrescent - 1
    /\ ZBaseMax > Mul(ZRadius, CRESCENT_FRACTION)
    /\ zOut.font_size < ZFont /\ zOut.font_size > 0
    /\ zOut.radii.b_only < zOut.radii.a_only

\* the required lens area as specified: n (font / 95 + padding)^2 / 0.75 * 1.15,
\* and the floor 0.1 for n = 0
ZSpacing == (ZFont * ONE) \div 95 + ZPadding
ZRequired ==
    IF zN > 0
    THEN Mul((zN * Mul(ZSpacing, ZSpacing) * 4) \div 3, 1150000)
    ELSE 100000

\* C29: for intersection_size n > 0 the required lens area is
\* n (font / 95 + padding)^2 / 0.75 * 1.15 and for n = 0 it is 0.1; whenever
\* it is at most 95% of pi R^2, the lens area recomputed from the solved
\* separation differs from it by less than the solver tolerance 0.005.
C29_LensSized ==
    zPc = "lens" =>
        /\ ZRequired = RequiredLensArea(zN, ZFont, ZPadding)
        /\ zOut.circle_separation = solve_lens_separation(ZRadius, ZRequired)
        /\ zOut.area = calculate_lens_area(ZRadius, zOut.circle_separation)
        /\ ~BeyondReach(ZRadius, ZRequired) => Abs(zOut.area - ZRequired) < 5000

\* a lens in reach that is sized off its target, within the tolerance
C29_NearTarget ==
    /\ zPc = "lens" /\ zN > MaxSmall
    /\ ~BeyondReach(ZRadius, ZRequired)
    /\ zOut.area # ZRequired
    /\ zOut.circle_separation > 0

\* C30: for every pair of input sets circle_a_center = (-d/2, 0, 0) and
\* circle_b_center = (+d/2, 0, 0) with d = circle_separation, the lens center
\* is the origin, and 0 <= d < 2 circle_radius, so that the circles overlap,
\* for disjoint sets too, with lens_area > 0, lens_width > 0 and
\* lens_height > 0.
C30_WellFormed ==
    HasLayout =>
        /\ layout.circle_a_center = <<-(layout.circle_separation \div 2), 0, 0>>
        /\ layout.circle_b_center = <<layout.circle_separation \div 2, 0, 0>>
        /\ layout.circle_a_center[1] + layout.circle_b_center[1] = 0
        /\ LensCenter(layout) = <<0, 0, 0>>
        /\ 0 <= layout.circle_separation
        /\ layout.circle_separation < 2 * layout.circle_radius
        /\ Dist(layout.circle_a_center, layout.circle_b_center) < 2 * layout.circle_radius
        /\ layout.lens_area > 0
        /\ layout.lens_width > 0
        /\ layout.lens_height > 0

\* disjoint sets whose circles are apart and still overlap
C30_DisjointOverlap ==
    /\ HasLayout
    /\ AOnly # {} /\ BOnly # {} /\ Both = {}
    /\ layout.circle_a_center[1] < 0 /\ layout.circle_b_center[1] > 0
    /\ layout.lens_width < layout.lens_height

====
